---- MODULE Spec2Model ----
(***************************************************************************)
(* A model of donut.rs (src/src/main.rs): the fixed-point rotating torus   *)
(* renderer.  The state is main's locals (the two buffers, the eight       *)
(* fixed-point vector components, the loop counters), the text printed in  *)
(* the current loop iteration and the terminal cursor's row.  Every i32    *)
(* operation is modelled with its width: Mul, Add and Sub give the         *)
(* two's-complement result a build without overflow checks produces, and   *)
(* MulFits, AddFits and SubFits say whether a build with overflow checks   *)
(* panics instead.                                                         *)
(***************************************************************************)
EXTENDS Integers, Sequences, FiniteSets, TLC

VARIABLES
    pc,          \* the position of main in its loop
    buffer,      \* main's buffer: [char; BUFFER_SIZE]
    z_buffer,    \* main's z_buffer: [i8; BUFFER_SIZE]
    sin_A, cos_A, sin_B, cos_B,   \* the orientation, kept across frames
    sin_j, cos_j, sin_i, cos_i,   \* the two sweep vectors
    j, i,        \* the loop counters _j and _i
    out,         \* the text printed since the top of the loop iteration
    cursor,      \* the terminal cursor's row, relative to where main began
    frame,       \* the number of completed loop iterations
    wrapped,     \* an overflow has wrapped: the build has no overflow checks
    panic,       \* why main panicked, "none" while it runs
    smp,         \* the locals of the latest inner iteration
    inp          \* the vector and step of a run of rotate alone

vars == <<pc, buffer, z_buffer, sin_A, cos_A, sin_B, cos_B,
          sin_j, cos_j, sin_i, cos_i, j, i, out, cursor, frame, wrapped,
          panic, smp, inp>>

(***************************************************************************)
(* Bounds of the model.                                                    *)
(***************************************************************************)
MaxFrames == 2

(***************************************************************************)
(* i32 arithmetic.                                                         *)
(***************************************************************************)
I32_MAX == 2147483647
I32_MIN == (-I32_MAX) - 1

Abs(v) == IF v < 0 THEN -v ELSE v

InI32(v) == I32_MIN <= v /\ v <= I32_MAX

\* F applied to the value of v: the value is computed once, as a let does.
With(v, F(_)) == CHOOSE r \in {F(w) : w \in {v}} : TRUE

\* a * b is representable in an i32.
MulFits(a, b) ==
    LET m == Abs(a)
        n == Abs(b)
    IN  \/ m = 0
        \/ n = 0
        \/ n <= I32_MAX \div m
        \/ /\ (a < 0) # (b < 0)
           /\ n - 1 = I32_MAX \div m
           /\ I32_MAX % m = m - 1

\* The low 32 bits of a * b as an i32, from 16-bit limbs.
WrapMul(a, b) ==
    LET a0 == a % 65536
        a1 == a \div 65536
        b0 == b % 65536
        b1 == b \div 65536
        u == (a0 \div 256) * b0
        v == (a0 % 256) * b0
        w == (u % 256) * 256 + v
        lo == w % 65536
        carry == (u \div 256) + (w \div 65536)
        hi == (carry + ((a1 * b0) % 65536) + ((a0 * b1) % 65536)) % 65536
    IN  (IF hi >= 32768 THEN hi - 65536 ELSE hi) * 65536 + lo

Mul(a, b) == IF MulFits(a, b) THEN a * b ELSE WrapMul(a, b)

AddFits(a, b) == IF b >= 0 THEN a <= I32_MAX - b ELSE a >= I32_MIN - b

Add(a, b) ==
    IF AddFits(a, b) THEN a + b
    ELSE IF b > 0 THEN (a + I32_MIN) + (b + I32_MIN)
    ELSE (a - I32_MIN) + (b - I32_MIN)

SubFits(a, b) == IF b >= 0 THEN a >= I32_MIN + b ELSE a <= I32_MAX + b

Sub(a, b) ==
    IF SubFits(a, b) THEN a - b
    ELSE IF b > 0 THEN (a - I32_MIN) + ((I32_MAX - b) + 1)
    ELSE (a + I32_MIN) - (b - I32_MIN)

\* v >> n on an i32: the arithmetic shift.
Shr(v, n) == v \div (2 ^ n)

\* a / b on an i32, b # 0: the quotient truncated toward zero.
TDiv(a, b) ==
    LET q == Abs(a) \div Abs(b)
    IN  IF (a < 0) # (b < 0) THEN -q ELSE q

\* a / b panics in every build.
DivPanics(a, b) == b = 0 \/ (a = I32_MIN /\ b = -1)

\* An operation <<kind, a, b>> on two i32 values overflows.
OpOverflows(op) ==
    CASE op[1] = "mul" -> ~MulFits(op[2], op[3])
      [] op[1] = "add" -> ~AddFits(op[2], op[3])
      [] op[1] = "sub" -> ~SubFits(op[2], op[3])

AnyOverflow(ops) == \E k \in 1..Len(ops) : OpOverflows(ops[k])

(***************************************************************************)
(* rotate                                                                  *)
(***************************************************************************)
\* Lines 6-8 alone: the step without the correction of lines 9-11.
rotate_uncorrected(multiplier, shift, x, y) ==
    <<Sub(x, Shr(Mul(multiplier, y), shift)),
      Add(y, Shr(Mul(multiplier, x), shift))>>

rotate(multiplier, shift, x, y) ==
    LET temp == x
        x1 == Sub(x, Shr(Mul(multiplier, y), shift))
        y1 == Add(y, Shr(Mul(multiplier, temp), shift))
        temp2 == Shr(Sub(Sub(3145728, Mul(x1, x1)), Mul(y1, y1)), 11)
    IN  <<Shr(Mul(x1, temp2), 10), Shr(Mul(y1, temp2), 10)>>

\* The arithmetic operations of one call of rotate, in program order.
rotateOps(multiplier, shift, x, y) ==
    LET x1 == Sub(x, Shr(Mul(multiplier, y), shift))
        y1 == Add(y, Shr(Mul(multiplier, x), shift))
        temp2 == Shr(Sub(Sub(3145728, Mul(x1, x1)), Mul(y1, y1)), 11)
    IN  << <<"mul", multiplier, y>>,
           <<"sub", x, Shr(Mul(multiplier, y), shift)>>,
           <<"mul", multiplier, x>>,
           <<"add", y, Shr(Mul(multiplier, x), shift)>>,
           <<"mul", x1, x1>>,
           <<"sub", 3145728, Mul(x1, x1)>>,
           <<"mul", y1, y1>>,
           <<"sub", Sub(3145728, Mul(x1, x1)), Mul(y1, y1)>>,
           <<"mul", x1, temp2>>,
           <<"mul", y1, temp2>> >>

(***************************************************************************)
(* The constants of main.                                                  *)
(***************************************************************************)
BUFFER_SIZE == 1760
LUMINANCE_CHARS == <<".", ",", "-", "~", ":", ";", "=", "!", "*", "#", "$", "@">>
I8_MAX == 127
J_STEPS == 90
I_STEPS == 324
minor_radius_r1 == 1
major_radius_r2 == 2048
distance_constant_k2 == 5120 * 1024

(***************************************************************************)
(* The per-sample pipeline, one operator per let of the inner loop body.   *)
(***************************************************************************)
x0(cj) == Add(Mul(minor_radius_r1, cj), major_radius_r2)
\* x1 without its shift: the product left at its full scale.
x1_unscaled(ci, v0) == Mul(ci, v0)

x1(ci, v0) == Shr(Mul(ci, v0), 10)
x2(cA, sj) == Shr(Mul(cA, sj), 10)
x3(si, v0) == Shr(Mul(si, v0), 10)
x4(sA, v2, v3) == Sub(Mul(minor_radius_r1, v2), Shr(Mul(sA, v3), 10))
x5(sA, sj) == Shr(Mul(sA, sj), 10)
x6(cA, v3, v5) ==
    Add(Add(distance_constant_k2, Mul(Mul(minor_radius_r1, 1024), v5)), Mul(cA, v3))
x7(cj, si) == Shr(Mul(cj, si), 10)

\* The numerators of the projection.
x_num(cB, sB, v1, v4) == Mul(30, Sub(Mul(cB, v1), Mul(sB, v4)))
y_num(cB, sA, v1, v4) == Mul(15, Add(Mul(cB, v4), Mul(sA, v1)))

\* The luminance expression with 6 for its last shift: twice the scale.
luminance_raw_shift6(cA, sA, cB, sB, ci, cj, v2, v5, v7) ==
    Shr(Sub(Shr(Sub(Sub(Mul(Mul(-1, cA), v7),
                        Mul(cB, Add(Shr(Mul(Mul(-1, sA), v7), 10), v2))),
                    Mul(ci, Shr(Mul(cj, sB), 10))),
                10),
            v5),
        6)

\* The i32 luminance_index.
luminance_raw(cA, sA, cB, sB, ci, cj, v2, v5, v7) ==
    Shr(Sub(Shr(Sub(Sub(Mul(Mul(-1, cA), v7),
                        Mul(cB, Add(Shr(Mul(Mul(-1, sA), v7), 10), v2))),
                    Mul(ci, Shr(Mul(cj, sB), 10))),
                10),
            v5),
        7)

\* usize::try_from(luminance_index).unwrap_or(0)
luminance_index(raw) == IF raw < 0 THEN 0 ELSE raw

\* (x6 - distance_constant_k2) >> 15, before the conversion to i8.
zz_term(v6) == Shr(Sub(v6, distance_constant_k2), 15)

\* i8::try_from succeeds.
I8Fits(v) == -128 <= v /\ v <= 127

\* The bounds test with row 0 let in.
InBounds_row0(x, y) == 22 > y /\ y >= 0 /\ x > 0 /\ 80 > x

\* 22 > y && y > 0 && x > 0 && 80 > x
InBounds(x, y) == 22 > y /\ y > 0 /\ x > 0 /\ 80 > x

\* The row term with the modulo taken at 880, half the buffer.
y_term_half(y) ==
    IF y >= 0 THEN (80 * (y % 22)) % 880
    ELSE (896 + 80 * (y % 22)) % 880

\* ((y as isize).wrapping_mul(80) as usize) % BUFFER_SIZE on a 64-bit usize:
\* 80 * y for y >= 0, 2^64 + 80 * y for y < 0, and 2^64 % 1760 = 896.
y_term(y) ==
    IF y >= 0 THEN (80 * (y % 22)) % BUFFER_SIZE
    ELSE (896 + 80 * (y % 22)) % BUFFER_SIZE

\* (x as usize) + y_term overflows the usize: x < 0 is 2^64 + x.
IndexOverflows(x, y) == x < 0 /\ x + y_term(y) >= 0

\* A stand-in for the usize values from 2^64 - 2^31 up, which no integer of
\* the model holds: a negative x whose sum does not overflow.
USIZE_HIGH == 2147483647

\* o
FlatIndex(x, y) ==
    IF x >= 0 \/ IndexOverflows(x, y) THEN x + y_term(y) ELSE USIZE_HIGH



\* term as i8: the truncating conversion, which keeps the low 8 bits.
zz_as_i8(term) == [ok |-> TRUE, val |-> ((term + 128) % 256) - 128]

\* i8::try_from(term): ok, and the i8 when ok.
zz_i8(term) ==
    IF I8Fits(term) THEN [ok |-> TRUE, val |-> term]
    ELSE [ok |-> FALSE, val |-> 0]

\* The arithmetic operations of lines 42-59, in program order, save the
\* two additions that follow the divisions (see SampleStep).
sampleOps(cA, sA, cB, sB, ci, si, cj, sj) ==
    LET v0 == x0(cj)
        v1 == x1(ci, v0)
        v2 == x2(cA, sj)
        v3 == x3(si, v0)
        v4 == x4(sA, v2, v3)
        v5 == x5(sA, sj)
        v7 == x7(cj, si)
        r1cj == Mul(minor_radius_r1, cj)
        r1k == Mul(minor_radius_r1, 1024)
        r1kx5 == Mul(r1k, v5)
        cAx3 == Mul(cA, v3)
        cBx1 == Mul(cB, v1)
        sBx4 == Mul(sB, v4)
        cBx4 == Mul(cB, v4)
        sAx1 == Mul(sA, v1)
        ncA == Mul(-1, cA)
        nsA == Mul(-1, sA)
        la == Mul(ncA, v7)
        lb == Add(Shr(Mul(nsA, v7), 10), v2)
        cBlb == Mul(cB, lb)
        lc == Shr(Mul(cj, sB), 10)
        cilc == Mul(ci, lc)
    IN  << <<"mul", minor_radius_r1, cj>>,
           <<"add", r1cj, major_radius_r2>>,
           <<"mul", ci, v0>>,
           <<"mul", cA, sj>>,
           <<"mul", si, v0>>,
           <<"mul", minor_radius_r1, v2>>,
           <<"mul", sA, v3>>,
           <<"sub", Mul(minor_radius_r1, v2), Shr(Mul(sA, v3), 10)>>,
           <<"mul", sA, sj>>,
           <<"mul", minor_radius_r1, 1024>>,
           <<"mul", r1k, v5>>,
           <<"add", distance_constant_k2, r1kx5>>,
           <<"mul", cA, v3>>,
           <<"add", Add(distance_constant_k2, r1kx5), cAx3>>,
           <<"mul", cj, si>>,
           <<"mul", cB, v1>>,
           <<"mul", sB, v4>>,
           <<"sub", cBx1, sBx4>>,
           <<"mul", 30, Sub(cBx1, sBx4)>>,
           <<"mul", cB, v4>>,
           <<"mul", sA, v1>>,
           <<"add", cBx4, sAx1>>,
           <<"mul", 15, Add(cBx4, sAx1)>>,
           <<"mul", -1, cA>>,
           <<"mul", ncA, v7>>,
           <<"mul", -1, sA>>,
           <<"mul", nsA, v7>>,
           <<"add", Shr(Mul(nsA, v7), 10), v2>>,
           <<"mul", cB, lb>>,
           <<"sub", la, cBlb>>,
           <<"mul", cj, sB>>,
           <<"mul", ci, lc>>,
           <<"sub", Sub(la, cBlb), cilc>>,
           <<"sub", Shr(Sub(Sub(la, cBlb), cilc), 10), v5>> >>

\* What lines 42-59 hand to the rest of the inner loop body: the two
\* numerators, the divisor, the i32 luminance index.
sample(cA, sA, cB, sB, ci, si, cj, sj) ==
    LET v0 == x0(cj)
        v1 == x1(ci, v0)
        v2 == x2(cA, sj)
        v3 == x3(si, v0)
        v4 == x4(sA, v2, v3)
        v5 == x5(sA, sj)
        v6 == x6(cA, v3, v5)
        v7 == x7(cj, si)
    IN  [xn |-> x_num(cB, sB, v1, v4),
         yn |-> y_num(cB, sA, v1, v4),
         x6 |-> v6,
         lraw |-> luminance_raw(cA, sA, cB, sB, ci, cj, v2, v5, v7)]

\* let x = 40 + num / x6 (and y, with 12).
project(c, num, v6) == Add(c, TDiv(num, v6))

\* The locals of an inner iteration that reached line 60: x, y, the i32
\* luminance_index, x6, o and the depth term before its conversion; read
\* tells whether the iteration read z_buffer[o], stored whether it reached
\* line 69.
Locals(x, y, lraw, v6, rd, st) ==
    [valid |-> TRUE, x |-> x, y |-> y, lraw |-> lraw, x6 |-> v6,
     o |-> FlatIndex(x, y), term |-> zz_term(v6), read |-> rd, stored |-> st]

NoSample ==
    [valid |-> FALSE, x |-> 0, y |-> 0, lraw |-> 0, x6 |-> 0, o |-> 0,
     term |-> 0, read |-> FALSE, stored |-> FALSE]

\* The depth test with <= for <: a sample as deep as the stored one passes.
closer_or_level(zz, stored) == zz <= stored

\* zz < z_buffer[o]
closer(zz, stored) == zz < stored

\* Lines 60-71 on a sample at (x, y): the conversions, then the depth test
\* and the two stores.  panic: why the step panics in every build ("none":
\* it does not), after the stores that precede the panic.  overflow: the
\* usize addition or the i32 subtraction overflows.
plot(buf, zbuf, x, y, lraw, v6) ==
    LET lum == luminance_index(lraw)
        o == FlatIndex(x, y)
        zz == zz_i8(zz_term(v6))
        ovf == IndexOverflows(x, y) \/ ~SubFits(v6, distance_constant_k2)
    IN  IF ~zz.ok
        THEN [panic |-> "zz", overflow |-> ovf, read |-> FALSE, stored |-> FALSE,
              buffer |-> buf, z_buffer |-> zbuf]
        ELSE IF ~InBounds(x, y)
        THEN [panic |-> "none", overflow |-> ovf, read |-> FALSE, stored |-> FALSE,
              buffer |-> buf, z_buffer |-> zbuf]
        ELSE IF o >= BUFFER_SIZE
        THEN [panic |-> "index", overflow |-> ovf, read |-> FALSE, stored |-> FALSE,
              buffer |-> buf, z_buffer |-> zbuf]
        ELSE IF ~closer(zz.val, zbuf[o])
        THEN [panic |-> "none", overflow |-> ovf, read |-> TRUE, stored |-> FALSE,
              buffer |-> buf, z_buffer |-> zbuf]
        ELSE IF lum >= Len(LUMINANCE_CHARS)
        THEN [panic |-> "ramp", overflow |-> ovf, read |-> TRUE, stored |-> TRUE,
              buffer |-> buf, z_buffer |-> [zbuf EXCEPT ![o] = zz.val]]
        ELSE [panic |-> "none", overflow |-> ovf, read |-> TRUE, stored |-> TRUE,
              buffer |-> [buf EXCEPT ![o] = LUMINANCE_CHARS[lum + 1]],
              z_buffer |-> [zbuf EXCEPT ![o] = zz.val]]

\* Lines 51-71 of one inner iteration, given what lines 42-59 computed (s)
\* and whether one of their operations overflows (ovf).
Plotted(buf, zbuf, s, ovf) ==
    IF DivPanics(s.xn, s.x6) \/ DivPanics(s.yn, s.x6)
    THEN [panic |-> "divide", overflow |-> ovf, buffer |-> buf,
          z_buffer |-> zbuf, smp |-> NoSample]
    ELSE With(project(40, s.xn, s.x6), LAMBDA x :
         With(project(12, s.yn, s.x6), LAMBDA y :
         With(plot(buf, zbuf, x, y, s.lraw, s.x6), LAMBDA p :
            [panic |-> p.panic,
             overflow |-> \/ ovf
                          \/ ~AddFits(40, TDiv(s.xn, s.x6))
                          \/ ~AddFits(12, TDiv(s.yn, s.x6))
                          \/ p.overflow,
             buffer |-> p.buffer, z_buffer |-> p.z_buffer,
             smp |-> Locals(x, y, s.lraw, s.x6, p.read, p.stored)])))

\* Lines 42-71 of one inner iteration.  overflow: an i32 or usize operation
\* overflows (a build with overflow checks panics there, before any store).
SampleStep(buf, zbuf, cA, sA, cB, sB, ci, si, cj, sj) ==
    With(sample(cA, sA, cB, sB, ci, si, cj, sj), LAMBDA s :
    With(AnyOverflow(sampleOps(cA, sA, cB, sB, ci, si, cj, sj)), LAMBDA ovf :
        Plotted(buf, zbuf, s, ovf)))

(***************************************************************************)
(* main                                                                    *)
(***************************************************************************)
BlankBuffer == [k \in 0..(BUFFER_SIZE - 1) |-> " "]
FarBuffer == [k \in 0..(BUFFER_SIZE - 1) |-> I8_MAX]

\* The locals of main that the sampling sweep (lines 33-75) reads and
\* writes, as a record, and the orientation it only reads.
Cur ==
    [pc |-> pc, buffer |-> buffer, z_buffer |-> z_buffer,
     cos_i |-> cos_i, sin_i |-> sin_i, cos_j |-> cos_j, sin_j |-> sin_j,
     i |-> i, j |-> j, panic |-> panic, wrapped |-> wrapped, smp |-> smp]

Ori == [cos_A |-> cos_A, sin_A |-> sin_A, cos_B |-> cos_B, sin_B |-> sin_B]

\* Lines 38-72: one iteration of the inner loop, in a build with overflow
\* checks (checks) or without.
InnerStep(st, ori, checks) ==
    With(SampleStep(st.buffer, st.z_buffer, ori.cos_A, ori.sin_A,
                    ori.cos_B, ori.sin_B,
                    st.cos_i, st.sin_i, st.cos_j, st.sin_j), LAMBDA r :
    With(AnyOverflow(rotateOps(5, 8, st.cos_i, st.sin_i)), LAMBDA ovf2 :
    With(rotate(5, 8, st.cos_i, st.sin_i), LAMBDA rot :
        IF checks /\ r.overflow
        THEN [st EXCEPT !.pc = "abort", !.panic = "overflow"]
        ELSE IF r.panic # "none"
        THEN [st EXCEPT !.pc = "abort", !.panic = r.panic,
                        !.buffer = r.buffer, !.z_buffer = r.z_buffer,
                        !.smp = r.smp, !.wrapped = @ \/ r.overflow]
        ELSE IF checks /\ ovf2
        THEN [st EXCEPT !.pc = "abort", !.panic = "overflow",
                        !.buffer = r.buffer, !.z_buffer = r.z_buffer,
                        !.smp = r.smp]
        ELSE [st EXCEPT !.buffer = r.buffer, !.z_buffer = r.z_buffer,
                        !.smp = r.smp,
                        !.cos_i = rot[1], !.sin_i = rot[2], !.i = @ + 1,
                        !.wrapped = @ \/ r.overflow \/ ovf2])))

\* Line 74 and the loop heads at 33-35: the end of one outer iteration.
RowEndStep(st, checks) ==
    With(AnyOverflow(rotateOps(9, 7, st.cos_j, st.sin_j)), LAMBDA ovf :
    With(rotate(9, 7, st.cos_j, st.sin_j), LAMBDA rot :
        IF checks /\ ovf
        THEN [st EXCEPT !.pc = "abort", !.panic = "overflow"]
        ELSE IF st.j + 1 < J_STEPS
        THEN [st EXCEPT !.cos_j = rot[1], !.sin_j = rot[2], !.j = @ + 1,
                        !.sin_i = 0, !.cos_i = 1024, !.i = 0,
                        !.wrapped = @ \/ ovf]
        ELSE [st EXCEPT !.cos_j = rot[1], !.sin_j = rot[2], !.j = @ + 1,
                        !.wrapped = @ \/ ovf, !.pc = "emit"]))

\* One step of the sweep: an inner iteration, or the end of an outer one.
SweepStep(st, ori, checks) ==
    IF st.pc # "sample" THEN st
    ELSE IF st.i < I_STEPS THEN InnerStep(st, ori, checks)
    ELSE RowEndStep(st, checks)

\* n steps of the sweep, one after the other.
RECURSIVE Run(_, _, _, _)
Run(st, ori, checks, n) ==
    IF n = 0 THEN st
    ELSE IF n = 1 THEN SweepStep(st, ori, checks)
    ELSE With(Run(st, ori, checks, n \div 2), LAMBDA m :
              Run(m, ori, checks, n - (n \div 2)))

\* The steps of one whole sweep: J_STEPS rows of I_STEPS samples and a row end.
SWEEP_STEPS == J_STEPS * (I_STEPS + 1)

\* The state after a step: what a build without overflow checks gives
\* (rel), and, when the step overflows for the first time, also what a
\* build with them gives (chk).
Outcomes(rel, chk) ==
    IF rel.wrapped /\ ~wrapped THEN {rel, chk} ELSE {rel}

Becomes(st) ==
    /\ pc' = st.pc
    /\ buffer' = st.buffer
    /\ z_buffer' = st.z_buffer
    /\ cos_i' = st.cos_i /\ sin_i' = st.sin_i
    /\ cos_j' = st.cos_j /\ sin_j' = st.sin_j
    /\ i' = st.i /\ j' = st.j
    /\ panic' = st.panic
    /\ wrapped' = st.wrapped
    /\ smp' = st.smp

\* The state at the top of main's loop, with the orientation given.
Start(p, cA, sA, cB, sB) ==
    /\ pc = p
    /\ buffer = BlankBuffer
    /\ z_buffer = FarBuffer
    /\ sin_A = sA /\ cos_A = cA
    /\ sin_B = sB /\ cos_B = cB
    /\ sin_j = 0 /\ cos_j = 1024
    /\ sin_i = 0 /\ cos_i = 1024
    /\ j = 0 /\ i = 0
    /\ out = <<>>
    /\ cursor = 0
    /\ frame = 0
    /\ wrapped = FALSE
    /\ panic = "none"
    /\ smp = NoSample

\* Lines 18-24.
Init == Start("reset", 0, 1024, 0, 1024) /\ inp = <<>>

\* Lines 27-35: the top of the loop, up to the first sample.
Reset ==
    /\ pc = "reset"
    /\ frame < MaxFrames
    /\ buffer' = BlankBuffer
    /\ z_buffer' = FarBuffer
    /\ sin_j' = 0 /\ cos_j' = 1024
    /\ sin_i' = 0 /\ cos_i' = 1024
    /\ j' = 0 /\ i' = 0
    /\ out' = <<>>
    /\ smp' = NoSample
    /\ pc' = "sample"
    /\ UNCHANGED <<sin_A, cos_A, sin_B, cos_B, cursor, frame, wrapped, panic,
                   inp>>

\* Lines 38-72: one iteration of the inner loop.
Sample ==
    /\ pc = "sample"
    /\ i < I_STEPS
    /\ \E rel \in {InnerStep(Cur, Ori, FALSE)} :
         \E st \in Outcomes(rel, InnerStep(Cur, Ori, TRUE)) : Becomes(st)
    /\ UNCHANGED <<sin_A, cos_A, sin_B, cos_B, out, cursor, frame, inp>>

\* Line 74 and the loop heads at 33-35: the end of one outer iteration.
RowEnd ==
    /\ pc = "sample"
    /\ i = I_STEPS
    /\ \E rel \in {RowEndStep(Cur, FALSE)} :
         \E st \in Outcomes(rel, RowEndStep(Cur, TRUE)) : Becomes(st)
    /\ UNCHANGED <<sin_A, cos_A, sin_B, cos_B, out, cursor, frame, inp>>

\* An emit loop that prints every cell, with a line break before each row.
EmitText_every_cell(buf) ==
    [n \in 1..(BUFFER_SIZE + 23) |->
        IF (n - 1) % 81 = 0 THEN "\n"
        ELSE buf[(n - 1) - ((n - 1) \div 81) - 1]]

\* A reposition sequence that moves up one line less.
CURSOR_UP_short == 23 - 1

EMIT_END == 1761
CURSOR_UP == 23

\* Lines 77-82: what the emit loop prints.
EmitText(buf) ==
    [n \in 1..EMIT_END |->
        IF (n - 1) % 80 = 0 THEN "\n" ELSE buf[n - 1]]

\* The line breaks of a printed text.
LineBreaks(text) == Cardinality({n \in 1..Len(text) : text[n] = "\n"})

Emit ==
    /\ pc = "emit"
    /\ \E text \in {EmitText(buffer)} :
          /\ out' = text
          /\ cursor' = cursor + LineBreaks(text)
    /\ pc' = "advance"
    /\ UNCHANGED <<buffer, z_buffer, sin_A, cos_A, sin_B, cos_B,
                   sin_j, cos_j, sin_i, cos_i, j, i, frame, wrapped, panic,
                   smp, inp>>

\* Lines 84-85.
Advance ==
    /\ pc = "advance"
    /\ \E ovfA \in {AnyOverflow(rotateOps(5, 7, cos_A, sin_A))},
          ovfB \in {AnyOverflow(rotateOps(5, 8, cos_B, sin_B))},
          rotA \in {rotate(5, 7, cos_A, sin_A)},
          rotB \in {rotate(5, 8, cos_B, sin_B)} :
           \E checks \in (IF (ovfA \/ ovfB) /\ ~wrapped
                          THEN {TRUE, FALSE} ELSE {FALSE}) :
             IF checks /\ ovfA
             THEN /\ pc' = "abort"
                  /\ panic' = "overflow"
                  /\ UNCHANGED <<cos_A, sin_A, cos_B, sin_B, wrapped>>
             ELSE IF checks
             THEN /\ pc' = "abort"
                  /\ panic' = "overflow"
                  /\ cos_A' = rotA[1]
                  /\ sin_A' = rotA[2]
                  /\ UNCHANGED <<cos_B, sin_B, wrapped>>
             ELSE /\ cos_A' = rotA[1]
                  /\ sin_A' = rotA[2]
                  /\ cos_B' = rotB[1]
                  /\ sin_B' = rotB[2]
                  /\ wrapped' = (wrapped \/ ovfA \/ ovfB)
                  /\ pc' = "sleep"
                  /\ UNCHANGED panic
    /\ UNCHANGED <<buffer, z_buffer, sin_j, cos_j, sin_i, cos_i, j, i, out,
                   cursor, frame, smp, inp>>

\* Line 87.
Sleep ==
    /\ pc = "sleep"
    /\ pc' = "reposition"
    /\ UNCHANGED <<buffer, z_buffer, sin_A, cos_A, sin_B, cos_B,
                   sin_j, cos_j, sin_i, cos_i, j, i, out, cursor, frame,
                   wrapped, panic, smp, inp>>

\* Line 88: the cursor moves up, and the loop iteration ends.
Reposition ==
    /\ pc = "reposition"
    /\ out' = Append(out, "ESC[23A")
    /\ cursor' = cursor - CURSOR_UP
    /\ frame' = frame + 1
    /\ pc' = "reset"
    /\ UNCHANGED <<buffer, z_buffer, sin_A, cos_A, sin_B, cos_B,
                   sin_j, cos_j, sin_i, cos_i, j, i, wrapped, panic, smp, inp>>

\* main, an inner iteration at a time.
Next == Reset \/ Sample \/ RowEnd \/ Emit \/ Advance \/ Sleep \/ Reposition

Spec == Init /\ [][Next]_vars

(***************************************************************************)
(* The first iteration of the loop entered TailSteps steps before the end  *)
(* of its sweep: the state main is in after lines 18-35 and the first      *)
(* SWEEP_STEPS - TailSteps steps of the sweep.                             *)
(***************************************************************************)
TailSteps == 100

\* Lines 21-24.
InitOri == [cos_A |-> 0, sin_A |-> 1024, cos_B |-> 0, sin_B |-> 1024]

\* Lines 27-35: the sweep's locals before its first sample.
FirstSample ==
    [pc |-> "sample", buffer |-> BlankBuffer, z_buffer |-> FarBuffer,
     cos_i |-> 1024, sin_i |-> 0, cos_j |-> 1024, sin_j |-> 0,
     i |-> 0, j |-> 0, panic |-> "none", wrapped |-> FALSE, smp |-> NoSample]

RunOutcomes(st, ori, n) ==
    LET rel == Run(st, ori, FALSE, n)
    IN  IF rel.wrapped /\ ~st.wrapped THEN {rel, Run(st, ori, TRUE, n)}
        ELSE {rel}

InitTail ==
    \E st \in RunOutcomes(FirstSample, InitOri, SWEEP_STEPS - TailSteps) :
        /\ pc = st.pc
        /\ buffer = st.buffer
        /\ z_buffer = st.z_buffer
        /\ cos_i = st.cos_i /\ sin_i = st.sin_i
        /\ cos_j = st.cos_j /\ sin_j = st.sin_j
        /\ i = st.i /\ j = st.j
        /\ panic = st.panic
        /\ wrapped = st.wrapped
        /\ smp = st.smp
        /\ sin_A = InitOri.sin_A /\ cos_A = InitOri.cos_A
        /\ sin_B = InitOri.sin_B /\ cos_B = InitOri.cos_B
        /\ out = <<>>
        /\ cursor = 0
        /\ frame = 0
        /\ inp = <<>>

SpecTail == InitTail /\ [][Next]_vars

(***************************************************************************)
(* The loop entered at a later iteration: the orientation main holds at    *)
(* the top of iteration StartFrame, which is the initial one advanced      *)
(* StartFrame times by lines 84-85.                                        *)
(***************************************************************************)
StartFrame == 72

RECURSIVE rotateN(_, _, _, _)
rotateN(multiplier, shift, v, n) ==
    IF n = 0 THEN v
    ELSE IF n = 1 THEN rotate(multiplier, shift, v[1], v[2])
    ELSE With(rotateN(multiplier, shift, v, n \div 2), LAMBDA w :
              rotateN(multiplier, shift, w, n - (n \div 2)))

InitOrbit ==
    \E a \in {rotateN(5, 7, <<0, 1024>>, StartFrame)},
       b \in {rotateN(5, 8, <<0, 1024>>, StartFrame)} :
        Start("reset", a[1], a[2], b[1], b[2]) /\ inp = <<>>

SpecOrbit == InitOrbit /\ [][Next]_vars

(***************************************************************************)
(* Lines 60-71 alone, on inputs drawn from PlotXs, PlotYs, PlotLums and    *)
(* PlotTerms, from the buffers as lines 27-28 leave them: the depths and   *)
(* luminance indices the sweep itself never produces are among them.       *)
(***************************************************************************)
MaxPlots == 2
PlotXs == {0, 1, 80}
PlotYs == {1, 22}
PlotLums == {-1, 0, 11, 12}
PlotTerms == {-130, -128, 5, 127, 129}

InitPlot == Start("plot", 0, 1024, 0, 1024) /\ inp = <<>>

PlotStep ==
    /\ pc = "plot"
    /\ i < MaxPlots
    /\ \E x \in PlotXs, y \in PlotYs, lraw \in PlotLums, t \in PlotTerms :
        \E v6 \in {distance_constant_k2 + t * 32768} :
        \E p \in {plot(buffer, z_buffer, x, y, lraw, v6)} :
        \E checks \in (IF p.overflow /\ ~wrapped THEN {TRUE, FALSE} ELSE {FALSE}) :
          IF checks
          THEN /\ pc' = "abort"
               /\ panic' = "overflow"
               /\ UNCHANGED <<buffer, z_buffer, smp, i, wrapped>>
          ELSE /\ buffer' = p.buffer
               /\ z_buffer' = p.z_buffer
               /\ smp' = Locals(x, y, lraw, v6, p.read, p.stored)
               /\ panic' = p.panic
               /\ pc' = (IF p.panic # "none" THEN "abort" ELSE "plot")
               /\ i' = i + 1
               /\ wrapped' = (wrapped \/ p.overflow)
    /\ UNCHANGED <<sin_A, cos_A, sin_B, cos_B, sin_j, cos_j, sin_i, cos_i,
                   j, out, cursor, frame, inp>>

SpecPlot == InitPlot /\ [][PlotStep]_vars

(***************************************************************************)
(* rotate alone, applied again and again to one vector with one of the     *)
(* three step-parameter pairs main uses.  Only pc, inp, i, wrapped and     *)
(* panic take part.                                                        *)
(***************************************************************************)
MaxRotations == 5000

RotateInputs ==
    {[multiplier |-> ms[1], shift |-> ms[2], x |-> v[1], y |-> v[2]] :
        ms \in {<<5, 8>>, <<9, 7>>, <<5, 7>>}, v \in {<<1024, 0>>, <<0, 1024>>}}

InitRotate ==
    /\ pc = "rotate"
    /\ inp \in RotateInputs
    /\ i = 0
    /\ wrapped = FALSE
    /\ panic = "none"
    /\ buffer = <<>> /\ z_buffer = <<>>
    /\ sin_A = 0 /\ cos_A = 0 /\ sin_B = 0 /\ cos_B = 0
    /\ sin_j = 0 /\ cos_j = 0 /\ sin_i = 0 /\ cos_i = 0
    /\ j = 0 /\ out = <<>> /\ cursor = 0 /\ frame = 0
    /\ smp = NoSample

RotateStep ==
    /\ pc = "rotate"
    /\ i < MaxRotations
    /\ \E ovf \in {AnyOverflow(rotateOps(inp.multiplier, inp.shift, inp.x, inp.y))},
          rot \in {rotate(inp.multiplier, inp.shift, inp.x, inp.y)} :
           \E checks \in (IF ovf /\ ~wrapped THEN {TRUE, FALSE} ELSE {FALSE}) :
             IF checks
             THEN /\ pc' = "abort"
                  /\ panic' = "overflow"
                  /\ UNCHANGED <<inp, i, wrapped>>
             ELSE /\ inp' = [inp EXCEPT !.x = rot[1], !.y = rot[2]]
                  /\ i' = i + 1
                  /\ wrapped' = (wrapped \/ ovf)
                  /\ UNCHANGED <<pc, panic>>
    /\ UNCHANGED <<buffer, z_buffer, sin_A, cos_A, sin_B, cos_B,
                   sin_j, cos_j, sin_i, cos_i, j, out, cursor, frame, smp>>

SpecRotate == InitRotate /\ [][RotateStep]_vars

(***************************************************************************)
(* C7: rotate keeps the magnitude.                                         *)
(***************************************************************************)
Magnitude(x, y) == x * x + y * y

UNIT == 1024 * 1024

\* C7: for each of the pairs (5,8), (9,7) and (5,7), from (1024,0) and from
\* (0,1024), after every one of the first MaxRotations applications of
\* rotate, cos*cos + sin*sin differs from 1024*1024 by less than 1% (under
\* the 5% the claim allows), no component leaves [-1100, 1100], and no
\* application overflows.
C7_RotationStable ==
    /\ pc = "rotate"
    /\ ~wrapped
    /\ Abs(Magnitude(inp.x, inp.y) - UNIT) * 100 < UNIT
    /\ Abs(inp.x) <= 1100 /\ Abs(inp.y) <= 1100

\* C7's case: MaxRotations applications with the pair (9,7) done, and the
\* magnitude is off 1024*1024 (the correction is at work).
C7_Witness ==
    /\ pc = "rotate"
    /\ i = MaxRotations
    /\ inp.multiplier = 9 /\ inp.shift = 7
    /\ Magnitude(inp.x, inp.y) # UNIT

(***************************************************************************)
(* C5: a depth outside the i8.                                             *)
(***************************************************************************)
\* C5: a sample whose depth term (x6 - k2) >> 15 is outside [-128, 127]
\* aborts the program at the conversion: the depth buffer is not read for
\* it, neither buffer changes, and so every depth the depth buffer holds is
\* a depth term of an earlier sample as it was, never one cut to 8 bits.
C5_DepthOutOfRangeAborts ==
    /\ [][(pc = "plot" /\ i' = i + 1 /\ ~I8Fits(smp'.term))
            => /\ pc' = "abort"
               /\ panic' = "zz"
               /\ ~smp'.read
               /\ ~smp'.stored
               /\ buffer' = buffer
               /\ z_buffer' = z_buffer]_vars
    /\ [](\A c \in DOMAIN z_buffer :
            z_buffer[c] = I8_MAX \/ (z_buffer[c] \in PlotTerms /\ I8Fits(z_buffer[c])))

\* C5's case: a sample with a depth term above 127 came after a stored one,
\* and the program stands aborted.
C5_Witness ==
    /\ pc = "abort"
    /\ panic = "zz"
    /\ smp.term > I8_MAX
    /\ \E c \in DOMAIN z_buffer : z_buffer[c] # I8_MAX

(***************************************************************************)
(* C4: the ramp lookup.                                                    *)
(***************************************************************************)
\* The index the claim gives: clamped at both ends of the ramp.
ClampedIndex(raw) == IF raw < 0 THEN 0 ELSE IF raw > 11 THEN 11 ELSE raw

C4_NegativeClamped ==
    (smp.valid /\ smp.stored /\ smp.lraw <= 11)
        => /\ panic = "none"
           /\ buffer[smp.o] = LUMINANCE_CHARS[ClampedIndex(smp.lraw) + 1]

(***************************************************************************)
(* C3: the emitted frame.                                                  *)
(***************************************************************************)
RampOrSpace == {" "} \cup {LUMINANCE_CHARS[n] : n \in 1..Len(LUMINANCE_CHARS)}

\* The printed characters that are no line break.
Visible(text) == {n \in 1..Len(text) : text[n] # "\n"}

\* The visible characters that follow the r-th line break (r from 1).
RowLength(text, r) ==
    LET breaks == {m : m \in {n \in 1..Len(text) : text[n] = "\n"}}
    IN  Cardinality({n \in Visible(text) :
            Cardinality({m \in breaks : m < n}) = r})

Emitted == pc \in {"advance", "sleep"}

\* C3 as the program has it: every emitted frame is 23 line breaks and 22
\* rows of exactly 79 visible characters (1738 in all), each a space or a
\* ramp character; row r shows the cells of columns 1..79 of row r in order,
\* and in place of each cell of column 0 stands the line break.
C3_Rows79 ==
    Emitted =>
        /\ Len(out) = EMIT_END
        /\ Cardinality(Visible(out)) = 22 * 79
        /\ \A n \in 1..Len(out) : (out[n] = "\n") <=> ((n - 1) % 80 = 0)
        /\ \A n \in Visible(out) : out[n] \in RampOrSpace /\ out[n] = buffer[n - 1]
        /\ \A r \in 1..22 : RowLength(out, r) = 79
        /\ \A k \in 0..(BUFFER_SIZE - 1) :
              (k % 80 # 0) <=> (\E n \in Visible(out) : n - 1 = k)

\* C3 as stated: every emitted frame is 22 rows of exactly 80 visible
\* characters, 1760 in all, each a space or a ramp character.
C3_Rows80 ==
    Emitted =>
        /\ Cardinality(Visible(out)) = BUFFER_SIZE
        /\ \A r \in 1..22 : RowLength(out, r) = 80
        /\ \A n \in Visible(out) : out[n] \in RampOrSpace

\* C3's case: a frame with the torus on it has been emitted.
C3_Witness ==
    /\ pc = "advance"
    /\ Len(out) = EMIT_END
    /\ \E n \in Visible(out) : out[n] # " "

(***************************************************************************)
(* C9: the order of the steps, and the cursor.                             *)
(***************************************************************************)
Orientation == <<sin_A, cos_A, sin_B, cos_B>>

\* The steps of one loop iteration, as the source has them.
StepOrder ==
    /\ pc = "reset" => pc' = "sample" /\ i' = 0 /\ j' = 0
    /\ pc = "sample" =>
          \/ pc' = "sample" /\ j' = j /\ i' = i + 1 /\ i < I_STEPS
          \/ pc' = "sample" /\ j' = j + 1 /\ i' = 0 /\ i = I_STEPS
          \/ pc' = "emit" /\ j' = J_STEPS /\ i = I_STEPS
    /\ pc = "emit" => pc' = "advance" /\ LineBreaks(out') = CURSOR_UP
    /\ pc = "advance" =>
          /\ pc' = "sleep"
          /\ <<cos_A', sin_A'>> = rotate(5, 7, cos_A, sin_A)
          /\ <<cos_B', sin_B'>> = rotate(5, 8, cos_B, sin_B)
    /\ pc = "sleep" => pc' = "reposition"
    /\ pc = "reposition" => pc' = "reset" /\ frame' = frame + 1
    /\ pc # "advance" => Orientation' = Orientation
    /\ pc \notin {"reset", "sample"} => buffer' = buffer /\ z_buffer' = z_buffer

\* C9: every iteration goes reset, the whole sweep (J_STEPS rows of I_STEPS
\* samples), emit, one advance of A and of B, sleep, reposition; what is
\* emitted for a frame has 23 line breaks, as many as the reposition moves
\* up, so at the top of every iteration the cursor is on the row where the
\* first frame began.
C9_OrderAndCursor ==
    /\ [][StepOrder]_vars
    /\ [](pc = "reset" => cursor = 0)
    /\ [](pc \in {"advance", "sleep", "reposition"} => cursor = 23)

\* C9's case: the first iteration is over, and the second is to begin.
C9_Witness ==
    /\ pc = "reset"
    /\ frame = 1
    /\ cursor = 0
    /\ Len(out) = EMIT_END + 1

(***************************************************************************)
(* C2 and C10: the bounds test and the flat index.                         *)
(***************************************************************************)
\* 0 < x < 80 and 0 < y < 22
OnScreen(x, y) == 0 < x /\ x < 80 /\ 0 < y /\ y < 22

\* The step just taken was an inner iteration, and smp' holds its locals.
Sampled == pc = "sample" /\ i < I_STEPS /\ i' = i + 1 /\ smp'.valid

\* The cells of row 0 and of column 0.
EdgeCells == (0..79) \cup {80 * r : r \in 0..21}

\* C2: an inner iteration whose (x, y) is not within 0 < x < 80, 0 < y < 22
\* neither reads the depth buffer nor changes either buffer; and at every
\* moment the cells of row 0 and of column 0 hold a space and depth 127.
C2_BoundsInvariant ==
    /\ [][(Sampled /\ ~OnScreen(smp'.x, smp'.y))
            => /\ ~smp'.read
               /\ ~smp'.stored
               /\ buffer' = buffer
               /\ z_buffer' = z_buffer]_vars
    /\ [](\A k \in EdgeCells : buffer[k] = " " /\ z_buffer[k] = I8_MAX)

\* C2's case: a sample that fell on row 0 has been discarded, and the cell
\* of row 0 under it is as reset left it.
C2_Witness ==
    /\ pc = "sample"
    /\ smp.valid
    /\ smp.y = 0 /\ 0 < smp.x /\ smp.x < 80
    /\ ~smp.read /\ ~smp.stored
    /\ buffer[smp.x] = " " /\ z_buffer[smp.x] = I8_MAX

\* C10: for a sample within the bounds, o = x + 80 * y, so o gives back x
\* and y and lies in the buffer; for a sample outside them, the usize
\* addition of line 63 does not overflow; and no index fault aborts.
C10_FlatIndex ==
    /\ panic # "index"
    /\ smp.valid =>
          /\ OnScreen(smp.x, smp.y) =>
                /\ smp.o = smp.x + 80 * smp.y
                /\ smp.o % 80 = smp.x
                /\ smp.o \div 80 = smp.y
                /\ smp.o < BUFFER_SIZE
          /\ ~OnScreen(smp.x, smp.y) => ~IndexOverflows(smp.x, smp.y)

\* C10's case: a sample with a negative y went through the index
\* computation and was discarded.
C10_Witness ==
    /\ pc = "sample"
    /\ smp.valid
    /\ smp.y < 0
    /\ smp.o = smp.x + y_term(smp.y)
    /\ ~smp.read

(***************************************************************************)
(* C6 and C8: no abort, no overflow.                                       *)
(***************************************************************************)
\* C6: from the initial orientation the program never aborts: at every
\* sample the divisor x6 is not zero, the depth term fits the i8, the
\* clamped luminance index is at most 11, and the index of an accepted
\* sample is below 1760.
C6_NoAbort ==
    /\ pc # "abort"
    /\ panic = "none"
    /\ smp.valid =>
          /\ smp.x6 # 0
          /\ I8Fits(smp.term)
          /\ luminance_index(smp.lraw) <= 11
          /\ InBounds(smp.x, smp.y) => smp.o < BUFFER_SIZE

\* C6's case: a sample with a negative raw luminance index was stored, as
\* the ramp's entry 0.
C6_Witness ==
    /\ pc = "sample"
    /\ smp.valid /\ smp.stored
    /\ smp.lraw < 0
    /\ buffer[smp.o] = LUMINANCE_CHARS[1]
    /\ z_buffer[smp.o] = smp.term

\* The operations the next step performs.
NextOps ==
    IF pc = "sample" /\ i < I_STEPS
    THEN sampleOps(cos_A, sin_A, cos_B, sin_B, cos_i, sin_i, cos_j, sin_j)
         \o rotateOps(5, 8, cos_i, sin_i)
    ELSE IF pc = "sample" THEN rotateOps(9, 7, cos_j, sin_j)
    ELSE IF pc = "advance"
    THEN rotateOps(5, 7, cos_A, sin_A) \o rotateOps(5, 8, cos_B, sin_B)
    ELSE <<>>

\* C8: no operation of rotate or of the per-sample pipeline overflows the
\* i32: none has wrapped, none has aborted a build that checks, and none of
\* the operations the next step performs will.
C8_NoOverflow ==
    /\ ~wrapped
    /\ panic # "overflow"
    /\ \A ops \in {NextOps} : ~AnyOverflow(ops)
    /\ smp.valid => InI32(smp.x) /\ InI32(smp.y) /\ InI32(smp.lraw) /\ InI32(smp.x6)

\* C8's case: the first row of samples and a rotation of each kind in the
\* sweep are done.
C8_Witness ==
    /\ pc = "sample"
    /\ j = 1 /\ i = 1
    /\ smp.valid
    /\ ~wrapped
    /\ <<cos_j, sin_j>> = rotate(9, 7, 1024, 0)
    /\ <<cos_i, sin_i>> = rotate(5, 8, 1024, 0)

(***************************************************************************)
(* C1: the nearest sample wins.                                            *)
(***************************************************************************)
\* The n vectors a loop of n iterations holds in turn, when it starts at v
\* and ends each iteration with rotate(multiplier, shift, ..): v first.
RECURSIVE Orbit(_, _, _, _)
Orbit(multiplier, shift, v, n) ==
    IF n = 1 THEN <<v>>
    ELSE LET a == Orbit(multiplier, shift, v, n \div 2)
             l == a[Len(a)]
         IN  a \o Orbit(multiplier, shift,
                        rotate(multiplier, shift, l[1], l[2]), n - (n \div 2))

\* The n-th sample of the sweep (n from 0, in sweep order) under the
\* orientation ori, where cj, sj, ci, si are the loops' vectors at it.
SampleAt(ori, cj, sj, ci, si, n) ==
    LET s == sample(ori.cos_A, ori.sin_A, ori.cos_B, ori.sin_B, ci, si, cj, sj)
    IN  [n |-> n,
         x |-> project(40, s.xn, s.x6),
         y |-> project(12, s.yn, s.x6),
         term |-> zz_term(s.x6),
         lraw |-> s.lraw]

\* All samples of one sweep under ori.
FrameSamples(ori) ==
    LET J == Orbit(9, 7, <<1024, 0>>, J_STEPS)
        I == Orbit(5, 8, <<1024, 0>>, I_STEPS)
    IN  {SampleAt(ori, J[a][1], J[a][2], I[b][1], I[b][2],
                  (a - 1) * I_STEPS + (b - 1)) :
            a \in 1..J_STEPS, b \in 1..I_STEPS}

\* buf and zbuf are what nearest-wins makes of the samples: a cell no
\* sample within the bounds mapped to is as reset left it; any other holds
\* the least depth among the samples mapped to it, and the ramp character
\* of the first of them, in sweep order, that has this depth.
NearestWins(samples, buf, zbuf) ==
    \A r \in 0..21 :
        \A row \in {{s : s \in {t \in samples : OnScreen(t.x, t.y) /\ t.y = r}}} :
            \A c \in 0..79 :
                \A cell \in {{s : s \in {t \in row : t.x = c}}} :
                    IF cell = {}
                    THEN zbuf[80 * r + c] = I8_MAX /\ buf[80 * r + c] = " "
                    ELSE \E s \in cell :
                            /\ \A t \in cell :
                                  s.term < t.term \/ (s.term = t.term /\ s.n <= t.n)
                            /\ zbuf[80 * r + c] = s.term
                            /\ buf[80 * r + c] =
                                  LUMINANCE_CHARS[luminance_index(s.lraw) + 1]

\* An inner iteration overwrites its cell exactly when its sample is within
\* the bounds and strictly nearer than the depth the cell holds, and it
\* changes nothing else.
OverwriteRule ==
    Sampled =>
        \A s \in {smp'} :
            IF OnScreen(s.x, s.y) /\ s.term < z_buffer[s.x + 80 * s.y]
            THEN /\ s.stored
                 /\ z_buffer' = [z_buffer EXCEPT ![s.x + 80 * s.y] = s.term]
                 /\ buffer' = [buffer EXCEPT ![s.x + 80 * s.y] =
                                  LUMINANCE_CHARS[luminance_index(s.lraw) + 1]]
            ELSE /\ ~s.stored
                 /\ z_buffer' = z_buffer
                 /\ buffer' = buffer

\* C1: at the end of every sweep the two buffers are what nearest-wins makes
\* of the samples of that sweep alone (whatever the buffers held at the top
\* of the iteration); a sample overwrites its cell exactly when it is
\* strictly nearer than the stored depth.
C1_NearestWins ==
    /\ [](pc = "emit" => NearestWins(FrameSamples(Ori), buffer, z_buffer))
    /\ [][OverwriteRule]_vars

\* C1's case: a sample as deep as the one its cell holds arrived, and the
\* cell kept the earlier one.
C1_Witness ==
    /\ pc = "sample"
    /\ smp.valid /\ smp.read /\ ~smp.stored
    /\ z_buffer[smp.o] = smp.term

====
